---- MODULE Spec2Model ----
(***************************************************************************)
(* FOMOBOT (src/sb1.py): a Slack bot that coordinates on-call swaps.       *)
(*                                                                         *)
(* A swap request lives only inside the text of a message the bot posts:   *)
(* post_swap_request embeds base64(json.dumps(metadata)) on the last line, *)
(* confirm_swap_request reads the message back through                     *)
(* conversations_history, decodes the token, posts two notifications and   *)
(* deletes the message.                                                    *)
(*                                                                         *)
(* Texts are TLA+ strings.  The character set of the model is ASCII 32..126*)
(* without the backtick (which a TLA+ string cannot hold; the source's     *)
(* backticks are written as an apostrophe) plus tab, newline and carriage  *)
(* return.                                                                 *)
(***************************************************************************)
EXTENDS Integers, Sequences, FiniteSets, TLC

(***************************************************************************)
(* Characters and bytes                                                    *)
(***************************************************************************)
\* ASCII 32..95
AsciiLow == " !\"#$%&'()*+,-./0123456789:;<=>?@ABCDEFGHIJKLMNOPQRSTUVWXYZ[\\]^_"
\* ASCII 97..126
AsciiHigh == "abcdefghijklmnopqrstuvwxyz{|}~"

Ch(s, i) == SubSeq(s, i, i)

Min(a, b) == IF a < b THEN a ELSE b

\* 0 when c does not occur in s from position i on, else its first position
Find(s, c, i) ==
    LET at == {k \in i .. Len(s) : Ch(s, k) = c}
    IN  IF at = {} THEN 0 ELSE CHOOSE k \in at : \A j \in at : k <= j

\* the strings f[i], ..., f[j] joined
RECURSIVE Join(_, _, _)
Join(f, i, j) ==
    IF i > j THEN ""
    ELSE IF i = j THEN f[i]
    ELSE Join(f, i, (i + j) \div 2) \o Join(f, (i + j) \div 2 + 1, j)

\* the characters of the model
Chars ==
    {"\n", "\t", "\r"} \cup {Ch(AsciiLow, i) : i \in 1 .. Len(AsciiLow)}
    \cup {Ch(AsciiHigh, i) : i \in 1 .. Len(AsciiHigh)}

\* the code of each character, tabulated once
OrdOf ==
    [c \in Chars |->
        IF c = "\n" THEN 10
        ELSE IF c = "\t" THEN 9
        ELSE IF c = "\r" THEN 13
        ELSE IF Find(AsciiLow, c, 1) > 0 THEN Find(AsciiLow, c, 1) + 31
        ELSE Find(AsciiHigh, c, 1) + 96]

\* str.encode("utf-8") of one character of the model's character set
Ord(c) == OrdOf[c]

\* the bytes of the model's character set
IsChar(n) == n \in {9, 10, 13} \cup (32..95) \cup (97..126)

Chr(n) ==
    IF n = 10 THEN "\n"
    ELSE IF n = 9 THEN "\t"
    ELSE IF n = 13 THEN "\r"
    ELSE IF n <= 95 THEN Ch(AsciiLow, n - 31)
    ELSE Ch(AsciiHigh, n - 96)


(***************************************************************************)
(* base64 (b64encode / b64decode of the standard library)                  *)
(***************************************************************************)
B64Chars == "ABCDEFGHIJKLMNOPQRSTUVWXYZabcdefghijklmnopqrstuvwxyz0123456789+/"

B64Char(n) == Ch(B64Chars, n + 1)

\* table_a2b_base64: the value of each character of the alphabet, -1 for
\* every other character, tabulated once
table_a2b_base64 == [c \in Chars |-> Find(B64Chars, c, 1) - 1]

Pow2(n) == IF n = 0 THEN 1 ELSE IF n = 2 THEN 4 ELSE IF n = 4 THEN 16 ELSE 64

\* the four characters for bytes 3g-2 .. 3g of s, padded with "=" where s
\* ends before
b64group(s, g) ==
    LET n == Len(s)
        a == Ord(Ch(s, 3 * g - 2))
        b == IF 3 * g - 1 <= n THEN Ord(Ch(s, 3 * g - 1)) ELSE 0
        c == IF 3 * g <= n THEN Ord(Ch(s, 3 * g)) ELSE 0
        w == a * 65536 + b * 256 + c
    IN  B64Char(w \div 262144) \o B64Char((w \div 4096) % 64)
        \o (IF 3 * g - 1 <= n THEN B64Char((w \div 64) % 64) ELSE "=")
        \o (IF 3 * g <= n THEN B64Char(w % 64) ELSE "=")

\* b64encode(text.encode("utf-8")).decode("utf-8"): three bytes to four
\* characters, the last group padded
b64encode(s) ==
    Join([g \in 1 .. (Len(s) + 2) \div 3 |-> b64group(s, g)],
         1, (Len(s) + 2) \div 3)

\* binascii_find_valid: the next character at or after i that is "=" or of
\* the base64 alphabet, "" when there is none
NextValid(s, i) ==
    LET at == {k \in i .. Len(s) :
                   Ch(s, k) = "=" \/ table_a2b_base64[Ch(s, k)] >= 0}
    IN  IF at = {} THEN "" ELSE Ch(s, CHOOSE k \in at : \A j \in at : k <= j)

\* One turn of the loop of binascii.a2b_base64 (not strict), on character
\* i of s.  st is [quad_pos, leftchar, leftbits, out, done]: a character
\* outside the alphabet is skipped, a pad that does not complete a pad
\* sequence is skipped, one that does ends the input with leftbits = 0.
a2b_step(st, s, i) ==
    LET c == Ch(s, i)
        v == table_a2b_base64[c]
        lc == st.leftchar * 64 + v
        lb == st.leftbits + 6
    IN  IF st.done THEN st
        ELSE IF c = "="
        THEN IF st.quad_pos < 2
                \/ (st.quad_pos = 2 /\ NextValid(s, i + 1) /= "=")
             THEN st
             ELSE [st EXCEPT !.leftbits = 0, !.done = TRUE]
        ELSE IF v < 0 THEN st
        ELSE IF lb >= 8
        THEN [quad_pos |-> (st.quad_pos + 1) % 4,
              leftchar |-> lc % Pow2(lb - 8), leftbits |-> lb - 8,
              out |-> Append(st.out, (lc \div Pow2(lb - 8)) % 256),
              done |-> FALSE]
        ELSE [st EXCEPT !.quad_pos = (st.quad_pos + 1) % 4,
                        !.leftchar = lc, !.leftbits = lb]

\* the loop over characters i..j of s
RECURSIVE a2b_run(_, _, _, _)
a2b_run(st, s, i, j) ==
    IF i > j \/ st.done THEN st
    ELSE a2b_run(a2b_step(st, s, i), s, i + 1, j)

\* the loop over all of s from i, taken eight characters at a time (the
\* same loop; the chunks only keep the evaluation shallow)
RECURSIVE a2b_loop(_, _, _)
a2b_loop(st, s, i) ==
    IF i > Len(s) \/ st.done THEN st
    ELSE a2b_loop(a2b_run(st, s, i, Min(i + 7, Len(s))), s, i + 8)

\* binascii.a2b_base64(s): [ok, bytes]; left-over bits raise binascii.Error
a2b_base64(s) ==
    LET st == a2b_loop([quad_pos |-> 0, leftchar |-> 0, leftbits |-> 0,
                        out |-> <<>>, done |-> FALSE], s, 1)
    IN  [ok |-> st.leftbits = 0, bytes |-> st.out]

\* b64decode(s) with validate=False
b64decode(s) == a2b_base64(s)

\* bytes.decode of the decoded token, inside json.loads: [ok, s]; a byte
\* outside the model's character set is a decoding error
bytes_decode(bytes) ==
    IF \E i \in 1 .. Len(bytes) : ~IsChar(bytes[i])
    THEN [ok |-> FALSE, s |-> ""]
    ELSE [ok |-> TRUE,
          s |-> Join([i \in 1 .. Len(bytes) |-> Chr(bytes[i])], 1, Len(bytes))]

(***************************************************************************)
(* JSON (json.dumps / json.loads of the standard library)                  *)
(***************************************************************************)
\* a variant that escapes nothing: the round trip of C10 fails with it
json_escape_char_raw(c) == c

\* what py_encode_basestring_ascii writes for one character
json_escape_char(c) ==
    IF c = "\"" THEN "\\\""
    ELSE IF c = "\\" THEN "\\\\"
    ELSE IF c = "\n" THEN "\\n"
    ELSE IF c = "\r" THEN "\\r"
    ELSE IF c = "\t" THEN "\\t"
    ELSE c

\* py_encode_basestring_ascii, without the surrounding quotes
json_escape(s) ==
    Join([i \in 1 .. Len(s) |-> json_escape_char(Ch(s, i))], 1, Len(s))

json_string(s) == "\"" \o json_escape(s) \o "\""

\* json.dumps(metadata) of the dict post_swap_request builds: the keys in
\* insertion order, the separators ", " and ": "
json_dumps(metadata) ==
    "{" \o json_string("ru") \o ": " \o json_string(metadata.ru)
    \o ", " \o json_string("sd") \o ": " \o json_string(metadata.sd)
    \o ", " \o json_string("st") \o ": " \o json_string(metadata.st)
    \o ", " \o json_string("ed") \o ": " \o json_string(metadata.ed)
    \o ", " \o json_string("et") \o ": " \o json_string(metadata.et)
    \o "}"

\* A JSON value: t is "str", "num", "lit", "obj" or "arr"; s is the text of
\* a string, number or literal; m is the members <<key, value>> of an object
\* or the elements of an array.
JStr(x) == [t |-> "str", s |-> x, m |-> <<>>]
JNull == [t |-> "lit", s |-> "null", m |-> <<>>]

\* the scanner raising JSONDecodeError
JFail == [ok |-> FALSE, v |-> JNull, p |-> 0]

Digits == "0123456789"
IsDigit(s, p) == p <= Len(s) /\ Find(Digits, Ch(s, p), 1) > 0

\* WHITESPACE.match(s, p).end() of json.decoder
RECURSIVE SkipWs(_, _)
SkipWs(s, p) ==
    IF p <= Len(s) /\ Ch(s, p) \in {" ", "\t", "\n", "\r"}
    THEN SkipWs(s, p + 1)
    ELSE p

RECURSIVE SkipDigits(_, _)
SkipDigits(s, p) == IF IsDigit(s, p) THEN SkipDigits(s, p + 1) ELSE p

\* py_scanstring(s, p, strict=True), p just after the opening quote.  The
\* escapes \b, \f and \uXXXX name characters outside the model's character
\* set and are not modelled: they fail here.
\* It takes the text chunk by chunk (STRINGCHUNK): the characters up to the
\* next quote, backslash or control character, and then that character.
ChunkEnd(s, p) ==
    CHOOSE q \in p .. Len(s) + 1 :
        /\ q = Len(s) + 1 \/ Ch(s, q) \in {"\"", "\\", "\n", "\t", "\r"}
        /\ \A k \in p .. q - 1 : Ch(s, k) \notin {"\"", "\\", "\n", "\t", "\r"}

RECURSIVE ScanString(_, _, _)
ScanChunk(s, p, q, acc) == ScanString(s, q, acc \o SubSeq(s, p, q - 1))

ScanString(s, p, acc) ==
    IF p > Len(s) THEN JFail
    ELSE IF Ch(s, p) = "\"" THEN [ok |-> TRUE, v |-> JStr(acc), p |-> p + 1]
    ELSE IF Ch(s, p) \in {"\n", "\t", "\r"} THEN JFail
    ELSE IF Ch(s, p) /= "\\" THEN ScanChunk(s, p, ChunkEnd(s, p), acc)
    ELSE IF p + 1 > Len(s) THEN JFail
    ELSE IF Ch(s, p + 1) \in {"\"", "\\", "/"}
    THEN ScanString(s, p + 2, acc \o Ch(s, p + 1))
    ELSE IF Ch(s, p + 1) = "n" THEN ScanString(s, p + 2, acc \o "\n")
    ELSE IF Ch(s, p + 1) = "r" THEN ScanString(s, p + 2, acc \o "\r")
    ELSE IF Ch(s, p + 1) = "t" THEN ScanString(s, p + 2, acc \o "\t")
    ELSE JFail

\* NUMBER_RE of json.scanner: (-?(?:0|[1-9]\d*))(\.\d+)?([eE][-+]?\d+)?
ScanNumber(s, p) ==
    LET q == IF Ch(s, p) = "-" THEN p + 1 ELSE p
        q1 == IF ~IsDigit(s, q) THEN 0
              ELSE IF Ch(s, q) = "0" THEN q + 1
              ELSE SkipDigits(s, q)
        q2 == IF q1 <= Len(s) /\ Ch(s, q1) = "." /\ IsDigit(s, q1 + 1)
              THEN SkipDigits(s, q1 + 1)
              ELSE q1
        r == IF q2 + 1 <= Len(s) /\ Ch(s, q2 + 1) \in {"+", "-"}
             THEN q2 + 2
             ELSE q2 + 1
        q3 == IF q2 <= Len(s) /\ Ch(s, q2) \in {"e", "E"} /\ IsDigit(s, r)
              THEN SkipDigits(s, r)
              ELSE q2
    IN  IF q1 = 0 THEN JFail
        ELSE [ok |-> TRUE,
              v |-> [t |-> "num", s |-> SubSeq(s, p, q3 - 1), m |-> <<>>],
              p |-> q3]

StartsAt(s, p, w) == p + Len(w) - 1 <= Len(s) /\ SubSeq(s, p, p + Len(w) - 1) = w

JLit(w, p) ==
    [ok |-> TRUE, v |-> [t |-> "lit", s |-> w, m |-> <<>>], p |-> p + Len(w)]

\* scan_once / JSONObject / JSONArray of json.scanner and json.decoder: the
\* value that starts at p; [ok, v, p] with p the position after the value
RECURSIVE ParseValue(_, _)
RECURSIVE Members(_, _, _)
RECURSIVE Elements(_, _, _)
ParseValue(s, p) ==
    IF p > Len(s) THEN JFail
    ELSE IF Ch(s, p) = "\"" THEN ScanString(s, p + 1, "")
    ELSE IF Ch(s, p) = "{"
    THEN IF StartsAt(s, SkipWs(s, p + 1), "}")
         THEN [ok |-> TRUE, v |-> [t |-> "obj", s |-> "", m |-> <<>>],
               p |-> SkipWs(s, p + 1) + 1]
         ELSE Members(s, SkipWs(s, p + 1), <<>>)
    ELSE IF Ch(s, p) = "["
    THEN IF StartsAt(s, SkipWs(s, p + 1), "]")
         THEN [ok |-> TRUE, v |-> [t |-> "arr", s |-> "", m |-> <<>>],
               p |-> SkipWs(s, p + 1) + 1]
         ELSE Elements(s, SkipWs(s, p + 1), <<>>)
    ELSE IF StartsAt(s, p, "null") THEN JLit("null", p)
    ELSE IF StartsAt(s, p, "true") THEN JLit("true", p)
    ELSE IF StartsAt(s, p, "false") THEN JLit("false", p)
    ELSE IF StartsAt(s, p, "NaN") THEN JLit("NaN", p)
    ELSE IF StartsAt(s, p, "Infinity") THEN JLit("Infinity", p)
    ELSE IF StartsAt(s, p, "-Infinity") THEN JLit("-Infinity", p)
    ELSE ScanNumber(s, p)

\* the members of an object from p, where a key must start
Members(s, p, acc) ==
    IF ~StartsAt(s, p, "\"") THEN JFail
    ELSE LET key == ScanString(s, p + 1, "")
             colon == SkipWs(s, key.p)
             val == ParseValue(s, SkipWs(s, colon + 1))
             next == SkipWs(s, val.p)
             all == Append(acc, <<key.v.s, val.v>>)
         IN  IF ~key.ok \/ ~StartsAt(s, colon, ":") THEN JFail
             ELSE IF ~val.ok THEN JFail
             ELSE IF StartsAt(s, next, "}")
             THEN [ok |-> TRUE, v |-> [t |-> "obj", s |-> "", m |-> all],
                   p |-> next + 1]
             ELSE IF StartsAt(s, next, ",")
             THEN Members(s, SkipWs(s, next + 1), all)
             ELSE JFail

\* the elements of an array from p, where a value must start
Elements(s, p, acc) ==
    LET val == ParseValue(s, p)
        next == SkipWs(s, val.p)
        all == Append(acc, val.v)
    IN  IF ~val.ok THEN JFail
        ELSE IF StartsAt(s, next, "]")
        THEN [ok |-> TRUE, v |-> [t |-> "arr", s |-> "", m |-> all],
              p |-> next + 1]
        ELSE IF StartsAt(s, next, ",")
        THEN Elements(s, SkipWs(s, next + 1), all)
        ELSE JFail

\* json.loads(bytes): [ok, v]; the text must hold one value and nothing but
\* whitespace around it
json_value(text, val) ==
    IF text.ok /\ val.ok /\ SkipWs(text.s, val.p) > Len(text.s)
    THEN [ok |-> TRUE, v |-> val.v]
    ELSE [ok |-> FALSE, v |-> JNull]

json_text(text) == json_value(text, ParseValue(text.s, SkipWs(text.s, 1)))

json_loads(bytes) == json_text(bytes_decode(bytes))

(***************************************************************************)
(* Python string operations used on message texts                          *)
(***************************************************************************)
IsBreak(s, i) == Ch(s, i) \in {"\n", "\r"}

\* the position of the last line break among characters 1..i of s, 0 if none
LastBreak(s, i) ==
    LET at == {k \in 1 .. i : IsBreak(s, k)}
    IN  IF at = {} THEN 0 ELSE CHOOSE k \in at : \A j \in at : j <= k

\* msg.splitlines()[-1] for a text that is not empty: a line break that ends
\* the text ends the last line and starts no new one
last_line(msg) ==
    LET n == Len(msg)
        end == IF n >= 2 /\ SubSeq(msg, n - 1, n) = "\r\n" THEN n - 2
               ELSE IF n >= 1 /\ IsBreak(msg, n) THEN n - 1
               ELSE n
    IN  SubSeq(msg, LastBreak(msg, end) + 1, end)

\* s.startswith(prefix)
startswith(s, prefix) == StartsAt(s, 1, prefix)

\* s[a:b] for a >= 0 and b < 0
slice(s, a, b) ==
    LET start == Min(a, Len(s))
        stop == IF Len(s) + b < 0 THEN 0 ELSE Len(s) + b
    IN  IF start >= stop THEN "" ELSE SubSeq(s, start + 1, stop)

\* str(v) of a decoded JSON value, as an f-string formats it.  A number is
\* shown by its text and a container that is not empty is abbreviated.
PyStr(v) ==
    IF v.t = "str" \/ v.t = "num" THEN v.s
    ELSE IF v.t = "lit"
    THEN IF v.s = "null" THEN "None"
         ELSE IF v.s = "true" THEN "True"
         ELSE IF v.s = "false" THEN "False"
         ELSE IF v.s = "NaN" THEN "nan"
         ELSE IF v.s = "Infinity" THEN "inf"
         ELSE "-inf"
    ELSE IF v.t = "obj" THEN (IF Len(v.m) = 0 THEN "{}" ELSE "{...}")
    ELSE (IF Len(v.m) = 0 THEN "[]" ELSE "[...]")

(***************************************************************************)
(* The texts the bot composes                                              *)
(***************************************************************************)
help_text ==
    "\nI am FOMOBOT.  I can help you with on-call status, coverage and opening the pod bay doors \n\n"
    \o "* '/fomo help' -- show this help\n"
    \o "* '/fomo swap' -- request an on-call swap \n"
    \o "* '/fomo calendar' -- show on-call calendar\n\n"

\* the token of post_swap_request
encode_metadata(requestor, start_date, start_time, end_date, end_time) ==
    b64encode(json_dumps([ru |-> requestor, sd |-> start_date,
                          st |-> start_time, ed |-> end_date,
                          et |-> end_time]))

\* the message of post_swap_request
swap_request_text(requestor, start_date, start_time, end_date, end_time) ==
    ":hand: <!here> \n\n<@" \o requestor
    \o "> would like on-call coverage\nfrom:  *" \o start_date \o " "
    \o start_time \o "*\nto:  *" \o end_date \o " " \o end_time
    \o "*\n\nRespond to this message with :+1: to cover this period for <@"
    \o requestor \o ">\n\nRequestID:_"
    \o encode_metadata(requestor, start_date, start_time, end_date, end_time)
    \o "_"

\* the message of do_swap_confirmation
swap_coordination_text(taking_user, requesting_user, start_date, start_time, end_date, end_time) ==
    "_This is the bot, posting a notification message in another channel about the swap, or doing API calls to Everbridge and HRWizzle._\n"
    \o "'''INITIATE_ON_CALL_SWAP(from:<@" \o requesting_user \o "> to:<@"
    \o taking_user \o "> start:" \o start_date \o " " \o start_time
    \o " end:" \o end_date \o " " \o end_time
    \o ")\nBEEP BOOP\nESCHATON IMMANTIZED\nEND OF LINE'''\n"

\* the message of post_swap_confirmation_message
swap_confirmation_text(taking_user, requesting_user, start_date, start_time, end_date, end_time) ==
    "On call swap confirmed \n<@" \o taking_user
    \o "> will be on-call  \nfrom: *" \o start_date \o " " \o start_time
    \o "*\nto: *" \o end_date \o " " \o end_time \o "*\nin place of <@"
    \o requesting_user \o ">"

\* the message of member_joined
welcome_text(member) == ":tada: Welcome <@" \o member \o ">! \n" \o help_text

(***************************************************************************)
(* Decoding a fetched message (confirm_swap_request, before its first      *)
(* adapter write)                                                          *)
(***************************************************************************)
Sentinel == "RequestID:"

\* a variant that starts the slice one character early: C14 fails with it
encoded_metadata_early(last) == slice(last, 10, -1)

\* last[11:-1]
encoded_metadata(last) == slice(last, 11, -1)

\* metadata[key] of the decoded value: [ok, v]; KeyError when the object has
\* no such key, TypeError when the value is no object.  A key given twice
\* keeps its last value.
RECURSIVE LookupFrom(_, _, _)
LookupFrom(m, key, i) ==
    IF i = 0 THEN [ok |-> FALSE, v |-> JNull]
    ELSE IF m[i][1] = key THEN [ok |-> TRUE, v |-> m[i][2]]
    ELSE LookupFrom(m, key, i - 1)

Lookup(v, key) ==
    IF v.t /= "obj" THEN [ok |-> FALSE, v |-> JNull]
    ELSE LookupFrom(v.m, key, Len(v.m))

NoMetadata == [ru |-> "", sd |-> "", st |-> "", ed |-> "", et |-> ""]

\* the five subscripts that are evaluated before do_swap_confirmation is
\* called; md holds the five values as the f-strings will show them
subscripts(ru, sd, st, ed, et) ==
    IF ~(ru.ok /\ sd.ok /\ st.ok /\ ed.ok /\ et.ok)
    THEN [ok |-> FALSE, error |-> "KeyError", md |-> NoMetadata]
    ELSE [ok |-> TRUE, error |-> "",
          md |-> [ru |-> PyStr(ru.v), sd |-> PyStr(sd.v),
                  st |-> PyStr(st.v), ed |-> PyStr(ed.v),
                  et |-> PyStr(et.v)]]

metadata_of(val) ==
    IF ~val.ok
    THEN [ok |-> FALSE, error |-> "JSONDecodeError", md |-> NoMetadata]
    ELSE IF val.v.t /= "obj"
    THEN [ok |-> FALSE, error |-> "TypeError", md |-> NoMetadata]
    ELSE subscripts(Lookup(val.v, "ru"), Lookup(val.v, "sd"),
                    Lookup(val.v, "st"), Lookup(val.v, "ed"),
                    Lookup(val.v, "et"))

loads_decoded(raw) ==
    IF ~raw.ok
    THEN [ok |-> FALSE, error |-> "binascii.Error", md |-> NoMetadata]
    ELSE metadata_of(json_loads(raw.bytes))

\* json.loads(b64decode(encoded_metadata)) and the subscripts: [ok, error, md]
decode_metadata(token) == loads_decoded(b64decode(token))

(***************************************************************************)
(* The state                                                               *)
(***************************************************************************)
\* bounds of the model: the messages that come from outside (form
\* submissions, joins, other users' posts) and the accept reactions handled
MaxMsgs == 2
MaxThreads == 2

\* the bot's user id (auth_test) and the people of the workspace
my_slack_user == "B0"
Users == {"U1", "U2"}
Posters == {"U2"}
Channels == {"C1", "C2"}

\* the channel people join and talk in
Lobby == "C1"

\* the forms people fill in: who asks, and for which window
Forms ==
    { [user |-> "U1",
       window |-> [sd |-> "2024-01-01", st |-> "09:00", ed |-> "2024-01-02",
                   et |-> "09:30"]],
      [user |-> "U2",
       window |-> [sd |-> "2024-02-10", st |-> "18:30", ed |-> "2024-02-11",
                   et |-> "07:00"]] }

\* the payloads /interactive receives
Payloads ==
    { [type |-> k, private_metadata |-> c, user |-> f.user, window |-> f.window] :
          k \in {"view_submission", "block_actions"}, c \in Channels, f \in Forms }

NoPayload ==
    [type |-> "", private_metadata |-> "", user |-> "",
     window |-> [sd |-> "", st |-> "", ed |-> "", et |-> ""]]

\* the texts people post themselves
ForeignTexts ==
    { "lunch?",
      "RequestID:_" \o encode_metadata("U9", "2031-05-05", "01:00", "2031-05-06", "02:00") \o "_",
      "RequestID:_%%%_",
      "RequestID:_abc_",
      "RequestID:_" \o b64encode("[1, 2]") \o "_",
      "RequestID:_" \o b64encode("{\"ru\": \"U1\", \"sd\": \"x\"}") \o "_" }

\* The texts of the requests the forms above lead to and the tokens of these
\* and of the texts people post, each computed once: the operators below look
\* a text or a token up here and compute what is not here.
RequestTexts ==
    [f \in Forms |->
        swap_request_text(f.user, f.window.sd, f.window.st, f.window.ed,
                          f.window.et)]

KnownTexts == ForeignTexts \cup {RequestTexts[k] : k \in DOMAIN RequestTexts}

\* (@@ makes a table an explicit one: each entry is computed once)
LastLines == [x \in KnownTexts |-> last_line(x)] @@ <<>>

KnownTokens == {encoded_metadata(LastLines[x]) : x \in KnownTexts}

DecodedTokens == [token \in KnownTokens |-> decode_metadata(token)] @@ <<>>

VARIABLES
    store,      \* the messages of the workspace: [channel, ts, user, text]
    clock,      \* the last message timestamp the platform has given out
    threads,    \* the reaction_added events handled, each with its call of
                \* confirm_swap_request if it made one
    log         \* the adapter writes the bot has made, in order

vars == <<store, clock, threads, log>>

Tids == 1 .. MaxThreads

NoEvent ==
    [item_user |-> "", reaction |-> "", type |-> "", channel |-> "", ts |-> 0,
     user |-> ""]

\* a call of reaction_added that has not come yet.  late records whether the
\* event came after a successful chat_delete of the message it refers to.
Idle ==
    [pc |-> "idle", event |-> NoEvent, late |-> FALSE, fetched |-> 0,
     md |-> NoMetadata, result |-> ""]

Init ==
    /\ store = {}
    /\ clock = 0
    /\ threads = [t \in Tids |-> Idle]
    /\ log = <<>>

\* the messages that came from outside so far
NEnv ==
    Cardinality({i \in 1 .. Len(log) : log[i].by = 0})
    + Cardinality({m \in store : m.user /= my_slack_user})

(***************************************************************************)
(* The message store adapter (slack_client)                                *)
(***************************************************************************)
\* chat_postMessage(channel, text) by the bot: a new message with the next
\* timestamp.  by is the confirm_swap_request call that posts (0 for the
\* other handlers), kind and cause say what is posted and for which payload.
chat_postMessage(channel, text, by, kind, cause) ==
    /\ clock' = clock + 1
    /\ store' = store \cup {[channel |-> channel, ts |-> clock + 1,
                             user |-> my_slack_user, text |-> text]}
    /\ log' = Append(log, [op |-> "post", by |-> by, kind |-> kind,
                           channel |-> channel, ts |-> clock + 1,
                           text |-> text, ok |-> TRUE, cause |-> cause])

\* conversations_history(channel, latest=ts, limit=1, inclusive=True): the
\* newest message of the channel that is not newer than latest, in a list
conversations_history(channel, latest) ==
    LET older == {m \in store : m.channel = channel /\ m.ts <= latest}
    IN  IF older = {} THEN <<>>
        ELSE <<CHOOSE m \in older : \A n \in older : n.ts <= m.ts>>

\* chat_delete(channel, ts) asks for the bot's message at ts
CanDelete(channel, ts) ==
    \E m \in store :
        m.channel = channel /\ m.ts = ts /\ m.user = my_slack_user

\* a variant that answers ok and removes nothing: C13 fails with it
chat_delete_keeps(channel, ts, by) ==
    /\ log' = Append(log, [op |-> "delete", by |-> by, kind |-> "",
                           channel |-> channel, ts |-> ts, text |-> "",
                           ok |-> CanDelete(channel, ts), cause |-> NoPayload])
    /\ UNCHANGED <<store, clock>>

\* chat_delete(channel, ts): the message is removed; SlackApiError
\* (message_not_found) is raised when it is not there
chat_delete(channel, ts, by) ==
    /\ store' = IF CanDelete(channel, ts)
                THEN {m \in store : ~(m.channel = channel /\ m.ts = ts)}
                ELSE store
    /\ log' = Append(log, [op |-> "delete", by |-> by, kind |-> "",
                           channel |-> channel, ts |-> ts, text |-> "",
                           ok |-> CanDelete(channel, ts), cause |-> NoPayload])
    /\ UNCHANGED clock

(***************************************************************************)
(* The handlers                                                            *)
(***************************************************************************)
\* a variant that handles every payload that has a type: C9 fails with it
interactive_filter_any(payload) == payload.type /= ""

\* interactive: only a view_submission is handled
interactive_filter(payload) == payload.type = "view_submission"

\* post_swap_request(channel, requestor, ...)
post_swap_request(channel, requestor, start_date, start_time, end_date, end_time, cause) ==
    LET w == [sd |-> start_date, st |-> start_time, ed |-> end_date,
              et |-> end_time]
    IN  chat_postMessage(channel,
                         IF [user |-> requestor, window |-> w] \in Forms
                         THEN RequestTexts[[user |-> requestor, window |-> w]]
                         ELSE swap_request_text(requestor, start_date,
                                                start_time, end_date, end_time),
                         0, "request", cause)

\* POST /interactive with a signed request
interactive(payload) ==
    IF ~interactive_filter(payload)
    THEN UNCHANGED vars
    ELSE /\ NEnv < MaxMsgs
         /\ post_swap_request(payload.private_metadata, payload.user,
                              payload.window.sd, payload.window.st,
                              payload.window.ed, payload.window.et, payload)
         /\ UNCHANGED threads

\* the member_joined_channel event
member_joined(member, channel) ==
    /\ NEnv < MaxMsgs
    /\ chat_postMessage(channel, welcome_text(member), 0, "welcome", NoPayload)
    /\ UNCHANGED threads

\* somebody else posts a message of their own in a channel
user_post(user, channel, text) ==
    /\ NEnv < MaxMsgs
    /\ clock' = clock + 1
    /\ store' = store \cup {[channel |-> channel, ts |-> clock + 1,
                             user |-> user, text |-> text]}
    /\ UNCHANGED <<threads, log>>

\* the messages that are or have been in the store: the platform delivers
\* an event some time after the reaction, and the message may be gone by then
Sent ==
    store \cup
    { [channel |-> log[i].channel, ts |-> log[i].ts, user |-> my_slack_user,
       text |-> log[i].text] :
          i \in {k \in 1 .. Len(log) : log[k].op = "post" /\ log[k].ok} }

\* a chat_delete(channel, ts) has succeeded
Deleted(channel, ts) ==
    \E i \in 1 .. Len(log) :
        /\ log[i].op = "delete" /\ log[i].ok
        /\ log[i].channel = channel /\ log[i].ts = ts

\* the reaction_added events the platform can send: a reaction by a user on
\* a message, or on something that is no message
Events ==
    { [item_user |-> m.user, reaction |-> r, type |-> "message",
       channel |-> m.channel, ts |-> m.ts, user |-> u] :
          m \in Sent, r \in {"+1", "eyes"}, u \in Users }
    \cup
    { [item_user |-> my_slack_user, reaction |-> "+1", type |-> "file",
       channel |-> "", ts |-> 0, user |-> u] : u \in Users }

\* a variant that does not look at the author of the item: C8 fails with it
reaction_filter_any_author(event) ==
    /\ event.reaction = "+1"
    /\ event.type = "message"

\* the condition of reaction_added
reaction_filter(event) ==
    /\ event.item_user = my_slack_user
    /\ event.reaction = "+1"
    /\ event.type = "message"

\* the first confirm_swap_request call that has not been used
FreeTid == CHOOSE t \in Tids : threads[t].pc = "idle" /\
                               \A u \in Tids : u < t => threads[u].pc /= "idle"

\* the reaction_added event: a qualifying event calls confirm_swap_request,
\* which is then about to fetch; any other event is discarded
reaction_added(event) ==
    /\ \E t \in Tids : threads[t].pc = "idle"
    /\ threads' = [threads EXCEPT ![FreeTid] =
            IF reaction_filter(event)
            THEN [Idle EXCEPT !.pc = "fetch", !.event = event,
                              !.late = Deleted(event.channel, event.ts)]
            ELSE [Idle EXCEPT !.pc = "done", !.event = event,
                              !.late = Deleted(event.channel, event.ts),
                              !.result = "Discarded"]]
    /\ UNCHANGED <<store, clock, log>>

(***************************************************************************)
(* confirm_swap_request(channel, ts, taking_user), one step per adapter    *)
(* call; what lies between two adapter calls is local to the call          *)
(***************************************************************************)
\* last = msg['text'].splitlines()[-1], looked up where the text is a
\* known one
last_of(text) ==
    IF text \in KnownTexts THEN LastLines[text] ELSE last_line(text)

\* json.loads(b64decode(encoded_metadata)) and the subscripts, looked up
\* where the token is a known one
decoded(token) ==
    IF token \in KnownTokens THEN DecodedTokens[token]
    ELSE decode_metadata(token)

\* a variant that goes on whatever the decoding gave: C7 fails with it
inspect_decoded_unchecked(ts, dec) ==
    [fetched |-> ts, result |-> "", md |-> dec.md]

\* What confirm_swap_request finds in the response of conversations_history:
\* [fetched, result, md].  result is "" when the two notifications and the
\* delete are to follow, and else how the call ends: "IndexError" (no
\* message in the response), "NotApplicable" (the last line has no
\* sentinel), or the error that json.loads(b64decode(...)) or a subscript of
\* the metadata raises.
inspect_decoded(ts, dec) ==
    IF ~dec.ok
    THEN [fetched |-> ts, result |-> dec.error, md |-> NoMetadata]
    ELSE [fetched |-> ts, result |-> "", md |-> dec.md]

\* a variant that does not look for the sentinel: C6 fails with it
inspect_last_any(ts, last) ==
    inspect_decoded(ts, decoded(encoded_metadata(last)))

inspect_last(ts, last) ==
    IF ~startswith(last, Sentinel)
    THEN [fetched |-> ts, result |-> "NotApplicable", md |-> NoMetadata]
    ELSE inspect_decoded(ts, decoded(encoded_metadata(last)))

inspect(response) ==
    IF Len(response) = 0
    THEN [fetched |-> 0, result |-> "IndexError", md |-> NoMetadata]
    ELSE inspect_last(response[1].ts, last_of(response[1].text))

\* a variant that does nothing for the requestor's own reaction: C20 fails
\* with it
fetch_result_not_self(t, found) ==
    threads' = [threads EXCEPT
        ![t].pc = IF found.result = "" /\ found.md.ru /= threads[t].event.user
                  THEN "coordinate" ELSE "done",
        ![t].fetched = found.fetched,
        ![t].md = found.md,
        ![t].result = IF found.result = "" /\ found.md.ru = threads[t].event.user
                      THEN "NotApplicable" ELSE found.result]

\* the fetch and the decoding: the thread keeps what it found
fetch_result(t, found) ==
    threads' = [threads EXCEPT
        ![t].pc = IF found.result = "" THEN "coordinate" ELSE "done",
        ![t].fetched = found.fetched,
        ![t].md = found.md,
        ![t].result = found.result]

confirm_fetch(t) ==
    /\ threads[t].pc = "fetch"
    /\ \E response \in {conversations_history(threads[t].event.channel,
                                                threads[t].event.ts)} :
          \E found \in {inspect(response)} : fetch_result(t, found)
    /\ UNCHANGED <<store, clock, log>>

\* a variant that posts the confirmation where the coordination message is
\* due: C3 fails with it
confirmation_first(t, channel, taking_user, md) ==
    chat_postMessage(channel,
                     swap_confirmation_text(taking_user, md.ru, md.sd, md.st,
                                            md.ed, md.et),
                     t, "confirmation", NoPayload)

\* do_swap_confirmation(...)
do_swap_confirmation(t, channel, taking_user, md) ==
    chat_postMessage(channel,
                     swap_coordination_text(taking_user, md.ru, md.sd, md.st,
                                            md.ed, md.et),
                     t, "coordination", NoPayload)

confirm_coordinate(t) ==
    /\ threads[t].pc = "coordinate"
    /\ do_swap_confirmation(t, threads[t].event.channel,
                            threads[t].event.user, threads[t].md)
    /\ threads' = [threads EXCEPT ![t].pc = "notify"]

\* a variant that gives the start of the window for its end: C5 fails with it
confirmation_start_for_end(t, channel, taking_user, md) ==
    chat_postMessage(channel,
                     swap_confirmation_text(taking_user, md.ru, md.sd, md.st,
                                            md.sd, md.st),
                     t, "confirmation", NoPayload)

\* post_swap_confirmation_message(...)
post_swap_confirmation_message(t, channel, taking_user, md) ==
    chat_postMessage(channel,
                     swap_confirmation_text(taking_user, md.ru, md.sd, md.st,
                                            md.ed, md.et),
                     t, "confirmation", NoPayload)

confirm_notify(t) ==
    /\ threads[t].pc = "notify"
    /\ post_swap_confirmation_message(t, threads[t].event.channel,
                                      threads[t].event.user, threads[t].md)
    /\ threads' = [threads EXCEPT ![t].pc = "delete"]

\* a variant that deletes the message that was fetched: C16 fails with it
delete_ref_fetched(t) == threads[t].fetched

\* the reference chat_delete is given
delete_ref(t) == threads[t].event.ts

\* a variant that ends the call without the chat_delete: C17 fails with it
confirm_delete_skipped(t) ==
    /\ threads[t].pc = "delete"
    /\ threads' = [threads EXCEPT ![t].pc = "done", ![t].result = "Resolved"]
    /\ UNCHANGED <<store, clock, log>>

\* slack_client.chat_delete(channel=channel, ts=ts); the call ends here,
\* with SlackApiError when the message is not there
confirm_delete(t) ==
    /\ threads[t].pc = "delete"
    /\ chat_delete(threads[t].event.channel, delete_ref(t), t)
    /\ threads' = [threads EXCEPT
            ![t].pc = "done",
            ![t].result = IF CanDelete(threads[t].event.channel, delete_ref(t))
                          THEN "Resolved" ELSE "SlackApiError"]

Next ==
    \/ \E payload \in Payloads : interactive(payload)
    \/ \E member \in Users : member_joined(member, Lobby)
    \/ \E user \in Posters, text \in ForeignTexts : user_post(user, Lobby, text)
    \/ \E event \in Events : reaction_added(event)
    \/ \E t \in Tids : confirm_fetch(t)
    \/ \E t \in Tids : confirm_coordinate(t)
    \/ \E t \in Tids : confirm_notify(t)
    \/ \E t \in Tids : confirm_delete(t)

Spec == Init /\ [][Next]_vars

(***************************************************************************)
(* The codec on its own: one request is made from any field set, strings   *)
(* with a quote, a backslash and a line break among them, and is accepted  *)
(***************************************************************************)
FieldStrings == {"U1", "q\"\\", "a\nb"}

CodecPayloads ==
    { [type |-> "view_submission", private_metadata |-> Lobby, user |-> u,
       window |-> [sd |-> a, st |-> b, ed |-> c, et |-> d]] :
          u \in FieldStrings, a \in FieldStrings, b \in FieldStrings,
          c \in FieldStrings, d \in FieldStrings }

\* the one request of the codec specification
create_one(payload) ==
    /\ log = <<>>
    /\ interactive(payload)

NextCodec ==
    \/ \E payload \in CodecPayloads : create_one(payload)
    \/ \E event \in Events : reaction_added(event)
    \/ \E t \in Tids : confirm_fetch(t)
    \/ \E t \in Tids : confirm_coordinate(t)
    \/ \E t \in Tids : confirm_notify(t)
    \/ \E t \in Tids : confirm_delete(t)

SpecCodec == Init /\ [][NextCodec]_vars

(***************************************************************************)
(* What the properties speak of                                            *)
(***************************************************************************)
\* the adapter writes call t has made, in the order it made them
WritesBy(t) == SelectSeq(log, LAMBDA e : e.by = t)

\* the posts of one kind in the log
PostsOf(kind) ==
    {i \in 1 .. Len(log) : log[i].op = "post" /\ log[i].ok /\ log[i].kind = kind}

\* sub occurs in s
Contains(s, sub) ==
    \E k \in 1 .. (Len(s) - Len(sub) + 1) : SubSeq(s, k, k + Len(sub) - 1) = sub

\* call t is handling a qualifying signal that refers to the message posted
\* as log[i]
RefersTo(t, i) ==
    /\ threads[t].pc /= "idle"
    /\ threads[t].result /= "Discarded"
    /\ threads[t].event.channel = log[i].channel
    /\ threads[t].event.ts = log[i].ts

\* call t refers to the request posted as log[i] and was handed it by the
\* fetch
Accepts(t, i) == RefersTo(t, i) /\ threads[t].fetched = log[i].ts

\* the message call t was handed by conversations_history, if any
FetchedBy(t) ==
    {m \in Sent : /\ threads[t].fetched /= 0
                  /\ m.channel = threads[t].event.channel
                  /\ m.ts = threads[t].fetched}

\* the last line of the text starts with the sentinel
HasSentinel(text) ==
    /\ Len(last_line(text)) >= 10
    /\ SubSeq(last_line(text), 1, 10) = "RequestID:"

\* the five fields of the payload a request was made from, as a field set
FieldsOf(payload) ==
    [ru |-> payload.user, sd |-> payload.window.sd, st |-> payload.window.st,
     ed |-> payload.window.ed, et |-> payload.window.et]

DecodeErrors == {"binascii.Error", "JSONDecodeError", "TypeError", "KeyError"}

(***************************************************************************)
(* C1 .. C10                                                               *)
(***************************************************************************)
\* C1 (at-most-once resolution): for every request message posted by
\* post_swap_request, whatever qualifying signals refer to it and however
\* their calls of confirm_swap_request interleave, as long as every adapter
\* call has succeeded, at most one coordination message and at most one
\* confirmation message have been posted for it.
C1_AtMostOnce ==
    (\A k \in 1 .. Len(log) : log[k].ok) =>
        \A i \in PostsOf("request") :
            /\ Cardinality({j \in PostsOf("coordination") :
                               Accepts(log[j].by, i)}) <= 1
            /\ Cardinality({j \in PostsOf("confirmation") :
                               Accepts(log[j].by, i)}) <= 1

\* C2 (deletion is the commit point): a signal that comes after a successful
\* chat_delete of the message it refers to posts no coordination message and
\* no confirmation message.
C2_CommitPoint ==
    \A t \in Tids :
        threads[t].late =>
            \A i \in 1 .. Len(log) : log[i].by = t => log[i].op /= "post"

\* C3 (order of the writes): a call of confirm_swap_request that has resolved
\* a request has made exactly three adapter writes, in this order: the
\* coordination post, the confirmation post, the chat_delete of the message
\* its signal refers to, all in the channel of the signal; and a call that is
\* on its way has made the first of them so far.
C3_Order ==
    \A t \in Tids :
        LET w == WritesBy(t)
            c == threads[t].event.channel
        IN  /\ threads[t].pc = "notify" =>
                /\ Len(w) = 1
                /\ w[1].op = "post" /\ w[1].kind = "coordination"
            /\ threads[t].pc = "delete" =>
                /\ Len(w) = 2
                /\ w[1].op = "post" /\ w[1].kind = "coordination"
                /\ w[2].op = "post" /\ w[2].kind = "confirmation"
            /\ threads[t].result = "Resolved" =>
                /\ Len(w) = 3
                /\ w[1].op = "post" /\ w[1].kind = "coordination"
                /\ w[2].op = "post" /\ w[2].kind = "confirmation"
                /\ w[3].op = "delete" /\ w[3].ok
                /\ w[1].channel = c /\ w[2].channel = c /\ w[3].channel = c
                /\ w[1].ts < w[2].ts
                /\ w[3].ts = threads[t].event.ts

\* a call has resolved a request while the other call has written nothing
C3_Witness ==
    \E t \in Tids :
        /\ threads[t].result = "Resolved"
        /\ Len(WritesBy(t)) = 3
        /\ \A u \in Tids \ {t} : WritesBy(u) = <<>>

\* C4 (point lookup): the message confirm_swap_request is handed by the
\* fetch, and goes on to inspect, decode and confirm, is the message at ts,
\* and so the chat_delete, which is given ts, targets the fetched message.
C4_PointLookup ==
    \A t \in Tids :
        threads[t].fetched /= 0 => threads[t].fetched = threads[t].event.ts

\* C5 (data flow): when a request made by post_swap_request from a payload
\* of user U1 with its four window values is accepted by U2, which is when
\* the call handling U2's signal is handed that request, the coordination
\* message reads from U1 to U2 with these four values, the confirmation
\* names U2 in place of U1 with the same values, both go to the channel of
\* the request, and the chat_delete targets the request message.
C5_DataFlow ==
    \A t \in Tids : \A i \in PostsOf("request") :
        Accepts(t, i) =>
            LET w == WritesBy(t)
                f == FieldsOf(log[i].cause)
                u2 == threads[t].event.user
            IN  /\ threads[t].result \notin DecodeErrors \cup {"NotApplicable"}
                /\ Len(w) >= 1 =>
                    /\ w[1].channel = log[i].cause.private_metadata
                    /\ Contains(w[1].text,
                           "(from:<@" \o f.ru \o "> to:<@" \o u2 \o "> start:"
                           \o f.sd \o " " \o f.st \o " end:" \o f.ed \o " "
                           \o f.et \o ")")
                /\ Len(w) >= 2 =>
                    /\ w[2].channel = log[i].cause.private_metadata
                    /\ Contains(w[2].text, "<@" \o u2 \o "> will be on-call")
                    /\ Contains(w[2].text, "from: *" \o f.sd \o " " \o f.st \o "*")
                    /\ Contains(w[2].text, "to: *" \o f.ed \o " " \o f.et \o "*")
                    /\ Contains(w[2].text, "in place of <@" \o f.ru \o ">")
                /\ Len(w) >= 3 =>
                    /\ w[3].op = "delete"
                    /\ w[3].channel = log[i].channel
                    /\ w[3].ts = log[i].ts

\* U1's request has been accepted by U2 and the call is through
C5_Witness ==
    \E t \in Tids : \E i \in PostsOf("request") :
        /\ Accepts(t, i)
        /\ log[i].cause.user = "U1" /\ threads[t].event.user = "U2"
        /\ threads[t].result = "Resolved"
        /\ ~(\E m \in store : m.channel = log[i].channel /\ m.ts = log[i].ts)

\* C6 (NotApplicable is a no-op): a call of confirm_swap_request that was
\* handed a message whose last line does not start with "RequestID:" has
\* ended as NotApplicable without a post or a delete, and the message is in
\* the store as it was; so it is for every such call, however many there are.
C6_NoOp ==
    \A t \in Tids : \A m \in FetchedBy(t) :
        ~HasSentinel(m.text) =>
            /\ threads[t].pc = "done"
            /\ threads[t].result = "NotApplicable"
            /\ WritesBy(t) = <<>>
            /\ m \in store

\* two calls were handed the same message without the sentinel
C6_Witness ==
    \E t \in Tids : \E u \in Tids \ {t} : \E m \in FetchedBy(t) :
        /\ ~HasSentinel(m.text)
        /\ m \in FetchedBy(u)
        /\ threads[t].pc = "done" /\ threads[u].pc = "done"

\* C7 (a decode failure has no side effect): a call of confirm_swap_request
\* that was handed a message whose last line starts with the sentinel and
\* whose token does not decode (base64, JSON, an object, the five keys) has
\* ended with the error, without a post or a delete, and the message is in
\* the store with its text.
C7_DecodeFailure ==
    \A t \in Tids : \A m \in FetchedBy(t) :
        (HasSentinel(m.text) /\ ~decoded(encoded_metadata(last_line(m.text))).ok) =>
            /\ threads[t].pc = "done"
            /\ threads[t].result \in DecodeErrors
            /\ threads[t].md = NoMetadata
            /\ WritesBy(t) = <<>>
            /\ m \in store

\* a call was handed a message with the sentinel and a record that lacks keys
C7_Witness ==
    \E t \in Tids : \E m \in FetchedBy(t) :
        /\ HasSentinel(m.text)
        /\ ~decoded(encoded_metadata(last_line(m.text))).ok
        /\ threads[t].result = "KeyError"

\* C8 (reaction filtering): a reaction_added event whose item is not by the
\* bot, or whose reaction is not "+1", or whose item is no message, is
\* discarded: confirm_swap_request is not called, so nothing is fetched,
\* posted or deleted for it.
C8_Filter ==
    \A t \in Tids :
        ( /\ threads[t].pc /= "idle"
          /\ \/ threads[t].event.item_user /= my_slack_user
             \/ threads[t].event.reaction /= "+1"
             \/ threads[t].event.type /= "message" ) =>
            /\ threads[t].pc = "done"
            /\ threads[t].result = "Discarded"
            /\ threads[t].fetched = 0
            /\ WritesBy(t) = <<>>

\* an event on somebody else's message and an event with another reaction on
\* a message of the bot have both come
C8_Witness ==
    \E t \in Tids : \E u \in Tids :
        /\ threads[t].pc = "done" /\ threads[u].pc = "done"
        /\ threads[t].event.item_user \in Users
        /\ threads[t].event.reaction = "+1"
        /\ threads[u].event.item_user = my_slack_user
        /\ threads[u].event.reaction = "eyes"

\* the step is the handling of payload by interactive
HandledBy(payload) == interactive(payload)

\* C9 (request creation): handling a payload whose type is not
\* "view_submission" makes no adapter call; handling a "view_submission"
\* makes exactly one post and no delete: a message in the channel of the
\* view's private_metadata whose text names the submitting user and the
\* window and whose token holds the user and the four window fields.  So
\* every request in the log comes from a "view_submission".
C9_Creation ==
    /\ [][\A payload \in Payloads :
            HandledBy(payload) =>
                IF payload.type /= "view_submission"
                THEN UNCHANGED <<store, clock, log>>
                ELSE /\ Len(log') = Len(log) + 1
                     /\ SubSeq(log', 1, Len(log)) = log
                     /\ log'[Len(log')].op = "post"
                     /\ log'[Len(log')].channel = payload.private_metadata
                     /\ Cardinality(store') = Cardinality(store) + 1
                     /\ store \subseteq store']_vars
    /\ [](\A i \in PostsOf("request") :
            LET f == FieldsOf(log[i].cause)
            IN  /\ log[i].cause.type = "view_submission"
                /\ log[i].channel = log[i].cause.private_metadata
                /\ Contains(log[i].text,
                       "<@" \o f.ru \o "> would like on-call coverage")
                /\ Contains(log[i].text, "from:  *" \o f.sd \o " " \o f.st \o "*")
                /\ Contains(log[i].text, "to:  *" \o f.ed \o " " \o f.et \o "*")
                /\ decoded(encoded_metadata(last_line(log[i].text))).ok
                /\ decoded(encoded_metadata(last_line(log[i].text))).md = f)

\* a view_submission for the second channel has been handled
C9_Witness ==
    \E i \in PostsOf("request") :
        /\ log[i].cause.type = "view_submission"
        /\ log[i].cause.private_metadata = "C2"
        /\ \E m \in store : m.channel = "C2" /\ m.ts = log[i].ts
                            /\ m.text = log[i].text

\* C10 (codec round trip): for every field set f of strings, the token that
\* post_swap_request puts in the message (json.dumps, then base64), taken
\* from the last line of the message and decoded by confirm_swap_request
\* (base64, then json.loads), gives f.
C10_RoundTrip ==
    \A t \in Tids : \A i \in PostsOf("request") :
        Accepts(t, i) =>
            /\ threads[t].result \notin DecodeErrors \cup {"NotApplicable"}
            /\ threads[t].md = FieldsOf(log[i].cause)

\* a field set with a quote and a backslash in one field and a line break in
\* another has made the round trip
C10_Witness ==
    \E t \in Tids : \E i \in PostsOf("request") :
        /\ Accepts(t, i)
        /\ threads[t].pc = "coordinate"
        /\ log[i].cause.user = "q\"\\"
        /\ log[i].cause.window.et = "a\nb"
        /\ threads[t].md = FieldsOf(log[i].cause)

(***************************************************************************)
(* Adapter calls that fail.  slack_client raises SlackApiError when the    *)
(* platform answers not-ok (a rate limit, a channel that is archived, a    *)
(* network error), and confirm_swap_request catches nothing: the call ends *)
(* where the adapter call fails.                                           *)
(***************************************************************************)
\* chat_postMessage(channel, text) that fails: nothing is posted
chat_postMessage_fails(channel, text, by, kind) ==
    /\ log' = Append(log, [op |-> "post", by |-> by, kind |-> kind,
                           channel |-> channel, ts |-> 0, text |-> text,
                           ok |-> FALSE, cause |-> NoPayload])
    /\ UNCHANGED <<store, clock>>

\* a variant in which the message is gone although the call failed: C15
\* fails with it
chat_delete_fails_removes(channel, ts, by) ==
    /\ log' = Append(log, [op |-> "delete", by |-> by, kind |-> "",
                           channel |-> channel, ts |-> ts, text |-> "",
                           ok |-> FALSE, cause |-> NoPayload])
    /\ store' = {m \in store : ~(m.channel = channel /\ m.ts = ts)}
    /\ UNCHANGED clock

\* chat_delete(channel, ts) that fails: nothing is removed
chat_delete_fails(channel, ts, by) ==
    /\ log' = Append(log, [op |-> "delete", by |-> by, kind |-> "",
                           channel |-> channel, ts |-> ts, text |-> "",
                           ok |-> FALSE, cause |-> NoPayload])
    /\ UNCHANGED <<store, clock>>

\* conversations_history fails: the client raises, or the response is not
\* ok and the call returns without doing anything
fetch_fails(t, how) ==
    /\ threads[t].pc = "fetch"
    /\ threads' = [threads EXCEPT ![t].pc = "done", ![t].result = how]
    /\ UNCHANGED <<store, clock, log>>

\* a variant in which the failure is swallowed and the call goes on: C12
\* fails with it
coordinate_fails_swallowed(t) ==
    /\ threads[t].pc = "coordinate"
    /\ chat_postMessage_fails(threads[t].event.channel,
           swap_coordination_text(threads[t].event.user, threads[t].md.ru,
                                  threads[t].md.sd, threads[t].md.st,
                                  threads[t].md.ed, threads[t].md.et),
           t, "coordination")
    /\ threads' = [threads EXCEPT ![t].pc = "notify"]

\* the post of do_swap_confirmation fails
coordinate_fails(t) ==
    /\ threads[t].pc = "coordinate"
    /\ chat_postMessage_fails(threads[t].event.channel,
           swap_coordination_text(threads[t].event.user, threads[t].md.ru,
                                  threads[t].md.sd, threads[t].md.st,
                                  threads[t].md.ed, threads[t].md.et),
           t, "coordination")
    /\ threads' = [threads EXCEPT ![t].pc = "done",
                                  ![t].result = "SlackApiError"]

\* the post of post_swap_confirmation_message fails
notify_fails(t) ==
    /\ threads[t].pc = "notify"
    /\ chat_postMessage_fails(threads[t].event.channel,
           swap_confirmation_text(threads[t].event.user, threads[t].md.ru,
                                  threads[t].md.sd, threads[t].md.st,
                                  threads[t].md.ed, threads[t].md.et),
           t, "confirmation")
    /\ threads' = [threads EXCEPT ![t].pc = "done",
                                  ![t].result = "SlackApiError"]

\* the chat_delete of confirm_swap_request fails
delete_fails(t) ==
    /\ threads[t].pc = "delete"
    /\ chat_delete_fails(threads[t].event.channel, delete_ref(t), t)
    /\ threads' = [threads EXCEPT ![t].pc = "done",
                                  ![t].result = "SlackApiError"]

\* the requests of one channel, the accept reactions on them, and adapter
\* calls that may fail
NextFail ==
    \/ \E payload \in Payloads :
          /\ payload.private_metadata = Lobby
          /\ interactive(payload)
    \/ \E event \in Events : reaction_added(event)
    \/ \E t \in Tids : confirm_fetch(t)
    \/ \E t \in Tids : confirm_coordinate(t)
    \/ \E t \in Tids : confirm_notify(t)
    \/ \E t \in Tids : confirm_delete(t)
    \/ \E t \in Tids, how \in {"SlackApiError", "NotOk"} : fetch_fails(t, how)
    \/ \E t \in Tids : coordinate_fails(t)
    \/ \E t \in Tids : notify_fails(t)
    \/ \E t \in Tids : delete_fails(t)

SpecFail == Init /\ [][NextFail]_vars

(***************************************************************************)
(* C11 .. C20                                                              *)
(***************************************************************************)
\* the message posted as log[i] is in the store, with its text
InStore(i) ==
    \E m \in store : /\ m.channel = log[i].channel /\ m.ts = log[i].ts
                     /\ m.text = log[i].text

\* C11 (decoding never crashes): whatever follows the sentinel on the last
\* line, confirm_swap_request ends with a result of its own; no call ends by
\* an exception of the decoding (binascii.Error, JSONDecodeError, TypeError,
\* KeyError) that leaves confirm_swap_request and reaction_added uncaught.
C11_NoCrash ==
    \A t \in Tids : threads[t].result \notin DecodeErrors

\* call t has had a post fail
HasFailedPost(t) ==
    \E k \in 1 .. Len(log) : log[k].by = t /\ log[k].op = "post" /\ ~log[k].ok

\* the fetch of call t has failed
HasFailedFetch(t) ==
    \/ threads[t].result = "NotOk"
    \/ threads[t].result = "SlackApiError" /\ WritesBy(t) = <<>>

\* C12 (a failed acceptance leaves the request pending): a call of
\* confirm_swap_request whose fetch was not ok, or one of whose two posts
\* failed, is over and has not called chat_delete, and the request its
\* signal refers to is in the store with its text unless another call has
\* deleted it.
C12_StaysPending ==
    \A t \in Tids :
        (HasFailedFetch(t) \/ HasFailedPost(t)) =>
            /\ threads[t].pc = "done"
            /\ \A k \in 1 .. Len(log) : log[k].by = t => log[k].op /= "delete"
            /\ \A i \in PostsOf("request") :
                   RefersTo(t, i) =>
                       InStore(i) \/ Deleted(log[i].channel, log[i].ts)

\* the confirmation post of one call failed, and a call that wrote later has
\* resolved the same request
C12_Witness ==
    \E t \in Tids : \E u \in Tids \ {t} : \E i \in PostsOf("request") :
        /\ HasFailedPost(t) /\ Len(WritesBy(t)) = 2
        /\ RefersTo(t, i) /\ Accepts(u, i)
        /\ threads[u].result = "Resolved"
        /\ \A k \in 1 .. Len(log) : \A j \in 1 .. Len(log) :
               (log[k].by = t /\ log[j].by = u) => k < j

\* the posts of one kind made by calls that were handed the request posted
\* as log[i]
NotifiedFor(kind, i) ==
    {j \in PostsOf(kind) :
        /\ log[j].by \in Tids
        /\ threads[log[j].by].event.channel = log[i].channel
        /\ threads[log[j].by].fetched = log[i].ts}

\* no call of confirm_swap_request is between its fetch and its end
Quiet == \A t \in Tids : threads[t].pc \in {"idle", "done"}

\* C13 (message existence is the request state): when no call of
\* confirm_swap_request is in progress and no adapter call has failed, a
\* request message is in the store exactly if no confirmation has been
\* posted for it, and it is gone exactly if both its coordination and its
\* confirmation message have been posted.
C13_Existence ==
    (Quiet /\ \A k \in 1 .. Len(log) : log[k].ok) =>
        \A i \in PostsOf("request") :
            /\ InStore(i) <=> NotifiedFor("confirmation", i) = {}
            /\ ~InStore(i) <=> /\ NotifiedFor("coordination", i) /= {}
                               /\ NotifiedFor("confirmation", i) /= {}

\* all is quiet and well, one request is resolved and another is pending
C13_Witness ==
    /\ Quiet
    /\ \A k \in 1 .. Len(log) : log[k].ok
    /\ \E i \in PostsOf("request") : \E j \in PostsOf("request") :
           /\ ~InStore(i) /\ NotifiedFor("confirmation", i) /= {}
           /\ InStore(j) /\ NotifiedFor("confirmation", j) = {}

\* C14 (wire format of the token line): for every message post_swap_request
\* composes, the last line of the text is "RequestID:_", the token and "_",
\* the token holds neither a line break nor "_", and the slice last[11:-1]
\* that confirm_swap_request takes is exactly the token, whatever the length
\* of the token.
C14_WireFormat ==
    \A i \in PostsOf("request") :
        LET last == last_line(log[i].text)
            f == FieldsOf(log[i].cause)
            token == encode_metadata(f.ru, f.sd, f.st, f.ed, f.et)
        IN  /\ Len(last) >= 10 /\ SubSeq(last, 1, 10) = "RequestID:"
            /\ last = "RequestID:_" \o token \o "_"
            /\ ~Contains(token, "\n") /\ ~Contains(token, "\r")
            /\ ~Contains(token, "_")
            /\ encoded_metadata(last) = token

\* requests whose tokens end without padding, with "=" and with "==" are all
\* made from the field sets drawn; here is one with "==" whose fields hold a
\* line break
C14_Witness ==
    \E i \in PostsOf("request") :
        LET last == last_line(log[i].text)
        IN  /\ log[i].cause.window.sd = "a\nb"
            /\ SubSeq(last, Len(last) - 2, Len(last)) = "==_"

\* a chat_delete of call t has failed
HasFailedDelete(t) ==
    \E k \in 1 .. Len(log) : log[k].by = t /\ log[k].op = "delete" /\ ~log[k].ok

\* C15 (duplicate confirmation after a failed delete): when the chat_delete
\* of a call fails after its two posts and nobody has deleted the request,
\* the request message is in the store with its text and token as it was
\* posted (nothing in it says it was confirmed), and every call that is
\* handed it afterwards and whose posts succeed posts a coordination and a
\* confirmation message for it again.
C15_Duplicate ==
    \A i \in PostsOf("request") :
        /\ \A t \in Tids :
               ( /\ Accepts(t, i) /\ HasFailedDelete(t)
                 /\ ~Deleted(log[i].channel, log[i].ts) ) =>
                   /\ Len(WritesBy(t)) = 3
                   /\ InStore(i)
                   /\ decoded(encoded_metadata(last_line(log[i].text))).ok
        /\ \A u \in Tids :
               ( /\ Accepts(u, i) /\ threads[u].pc = "done"
                 /\ ~HasFailedPost(u) ) =>
                   LET w == WritesBy(u)
                   IN  /\ Len(w) = 3
                       /\ w[1].op = "post" /\ w[1].ok /\ w[1].kind = "coordination"
                       /\ w[2].op = "post" /\ w[2].ok /\ w[2].kind = "confirmation"

\* the chat_delete of one call failed with the request in the store, and a
\* call that wrote later has posted the two messages a second time
C15_Witness ==
    \E t \in Tids : \E u \in Tids \ {t} : \E i \in PostsOf("request") :
        /\ Accepts(t, i) /\ HasFailedDelete(t) /\ Accepts(u, i)
        /\ InStore(i)
        /\ Cardinality(NotifiedFor("coordination", i)) = 2
        /\ Cardinality(NotifiedFor("confirmation", i)) = 2
        /\ \A k \in 1 .. Len(log) : \A j \in 1 .. Len(log) :
               (log[k].by = t /\ log[j].by = u) => k < j

\* C16 (frame of the store): no step changes the text of a message that is
\* in the store; a message leaves the store only by the chat_delete of a call
\* of confirm_swap_request, made for a qualifying signal, and it is the
\* message the signal refers to; so every delete in the log is such a one,
\* and a request no qualifying signal refers to is in the store as posted.
C16_Frame ==
    /\ [][ /\ \A m \in store :
                \/ m \in store'
                \/ \E t \in Tids :
                      /\ threads[t].pc = "delete" /\ threads'[t].pc = "done"
                      /\ reaction_filter(threads[t].event)
                      /\ m.channel = threads[t].event.channel
                      /\ m.ts = threads[t].event.ts
           /\ \A m \in store : \A n \in store' :
                (m.channel = n.channel /\ m.ts = n.ts) => n = m ]_vars
    /\ [](\A k \in 1 .. Len(log) :
            log[k].op = "delete" =>
                /\ log[k].by \in Tids
                /\ reaction_filter(threads[log[k].by].event)
                /\ log[k].channel = threads[log[k].by].event.channel
                /\ log[k].ts = threads[log[k].by].event.ts)
    /\ [](\A i \in PostsOf("request") :
            (\A t \in Tids : ~RefersTo(t, i)) => InStore(i))

\* a request was resolved and deleted, an event was discarded, and another
\* request that no signal refers to is in the store as posted
C16_Witness ==
    \E i \in PostsOf("request") : \E t \in Tids : \E u \in Tids :
        /\ \A v \in Tids : ~RefersTo(v, i)
        /\ InStore(i)
        /\ threads[t].result = "Resolved"
        /\ threads[u].result = "Discarded"

(***************************************************************************)
(* Progress.  A call of confirm_swap_request is straight-line code: once   *)
(* reaction_added has called it, each of its adapter calls returns and the *)
(* next statement runs.  This is weak fairness of each of its steps.       *)
(***************************************************************************)
NextLive ==
    \/ \E payload \in Payloads :
          /\ payload.private_metadata = Lobby
          /\ interactive(payload)
    \/ \E event \in Events : reaction_added(event)
    \/ \E t \in Tids : confirm_fetch(t)
    \/ \E t \in Tids : confirm_coordinate(t)
    \/ \E t \in Tids : confirm_notify(t)
    \/ \E t \in Tids : confirm_delete(t)

Fairness ==
    \A t \in Tids :
        /\ WF_vars(confirm_fetch(t))
        /\ WF_vars(confirm_coordinate(t))
        /\ WF_vars(confirm_notify(t))
        /\ WF_vars(confirm_delete(t))

SpecLive == Init /\ [][NextLive]_vars /\ Fairness

\* the longest the log gets: a post for each message from outside and three
\* writes for each call
MaxLog == MaxMsgs + 3 * MaxThreads

\* call t has been made for a qualifying signal on the request posted as
\* log[i], which is in the store, and is about to fetch
PendingFor(t, i) ==
    /\ i <= Len(log)
    /\ log[i].kind = "request"
    /\ threads[t].pc = "fetch"
    /\ RefersTo(t, i)
    /\ InStore(i)

\* call t is over and the request posted as log[i] is resolved: the message
\* is gone and both notifications for it have been posted
ResolvedFor(t, i) ==
    /\ i <= Len(log)
    /\ threads[t].pc = "done"
    /\ ~InStore(i)
    /\ NotifiedFor("coordination", i) /= {}
    /\ NotifiedFor("confirmation", i) /= {}

\* C17 (liveness of resolution): a call of confirm_swap_request makes at
\* most two posts and one delete, and once it has been made for a qualifying
\* signal on a request that is in the store, the call comes to its end and
\* the request becomes resolved: its message deleted and both notifications
\* for it posted.
C17_Resolves ==
    /\ [](\A t \in Tids :
            /\ Len(WritesBy(t)) <= 3
            /\ Cardinality({k \in 1 .. Len(log) :
                               log[k].by = t /\ log[k].op = "post"}) <= 2
            /\ Cardinality({k \in 1 .. Len(log) :
                               log[k].by = t /\ log[k].op = "delete"}) <= 1)
    /\ \A t \in Tids : \A i \in 1 .. MaxLog :
            PendingFor(t, i) ~> ResolvedFor(t, i)

\* a call has resolved the request of its signal with every adapter call ok
C17_Witness ==
    \E t \in Tids : \E i \in PostsOf("request") :
        /\ Accepts(t, i) /\ ResolvedFor(t, i)
        /\ threads[t].result = "Resolved"
        /\ \A k \in 1 .. Len(log) : log[k].ok

(***************************************************************************)
(* The fields of a notification come from the token of the fetched         *)
(* message.  Here somebody posts a text of their own whose token holds a   *)
(* requestor with a line break in it.                                      *)
(***************************************************************************)
ChainInner ==
    b64encode("{\"ru\":\"U1\",\"sd\":\"\",\"st\":\"\",\"ed\":\"\",\"et\":\"\"}")

\* a requestor field: what follows its line break reads as a sentinel line
ChainUser == "U9\nRequestID:_" \o ChainInner \o "_"

ChainText ==
    "RequestID:_"
    \o encode_metadata(ChainUser, "2024-03-01", "08:00", "2024-03-02", "08:00")
    \o "_"

NextChain ==
    \/ \E payload \in Payloads :
          /\ payload.private_metadata = Lobby
          /\ interactive(payload)
    \/ \E member \in Users : member_joined(member, Lobby)
    \/ \E user \in Posters : user_post(user, Lobby, ChainText)
    \/ \E event \in Events : reaction_added(event)
    \/ \E t \in Tids : confirm_fetch(t)
    \/ \E t \in Tids : confirm_coordinate(t)
    \/ \E t \in Tids : confirm_notify(t)
    \/ \E t \in Tids : confirm_delete(t)

SpecChain == Init /\ [][NextChain]_vars

\* the messages the bot posts that are no requests
Notices == PostsOf("coordination") \cup PostsOf("confirmation")
           \cup PostsOf("welcome")

\* C18 (the bot's other messages are no requests): the last line of a
\* coordination, confirmation or welcome message the bot posts does not
\* start with "RequestID:", whatever fields it was written with, and a call
\* of confirm_swap_request that is handed such a message makes no post and
\* no delete.
C18_NotRequests ==
    \A i \in Notices :
        /\ ~HasSentinel(log[i].text)
        /\ \A t \in Tids :
              (RefersTo(t, i) /\ threads[t].fetched = log[i].ts)
                  => WritesBy(t) = <<>>

\* C19 (confirmations only for requests of the bot): every coordination and
\* confirmation message is posted by a call of confirm_swap_request that
\* was handed a message of the bot posted by post_swap_request; the token of
\* a message written by somebody else is never decoded and confirmed.
C19_BotRequestsOnly ==
    \A j \in PostsOf("coordination") \cup PostsOf("confirmation") :
        /\ log[j].by \in Tids
        /\ \A m \in FetchedBy(log[j].by) :
              /\ m.user = my_slack_user
              /\ \E i \in PostsOf("request") :
                    log[i].channel = m.channel /\ log[i].ts = m.ts

\* C20 (no check on who accepts): a call of confirm_swap_request that was
\* handed the request of its signal resolves it for whichever user reacted,
\* the requestor included: when the call is over it has posted the
\* coordination and the confirmation message with the reacting user as the
\* covering user (equal to the requesting user when the requestor reacts)
\* and has called chat_delete for the request, which is gone.
C20_AnyAcceptor ==
    \A t \in Tids : \A i \in PostsOf("request") :
        (Accepts(t, i) /\ threads[t].pc = "done") =>
            LET w == WritesBy(t)
                f == FieldsOf(log[i].cause)
                u == threads[t].event.user
            IN  /\ Len(w) = 3
                /\ w[1].op = "post" /\ w[1].ok
                /\ w[1].text = swap_coordination_text(u, f.ru, f.sd, f.st,
                                                      f.ed, f.et)
                /\ w[2].op = "post" /\ w[2].ok
                /\ w[2].text = swap_confirmation_text(u, f.ru, f.sd, f.st,
                                                      f.ed, f.et)
                /\ w[3].op = "delete"
                /\ w[3].channel = log[i].channel /\ w[3].ts = log[i].ts
                /\ ~InStore(i)

\* U1 has reacted to U1's own request and the call is through: both
\* messages name U1 as covering and as requesting user
C20_Witness ==
    \E t \in Tids : \E i \in PostsOf("request") :
        /\ Accepts(t, i)
        /\ log[i].cause.user = "U1" /\ threads[t].event.user = "U1"
        /\ threads[t].result = "Resolved"
        /\ Contains(WritesBy(t)[1].text, "(from:<@U1> to:<@U1> ")
        /\ Contains(WritesBy(t)[2].text, "<@U1> will be on-call")
        /\ Contains(WritesBy(t)[2].text, "in place of <@U1>")
        /\ WritesBy(t)[3].ok
        /\ ~InStore(i)
====
